---- MODULE Spec2Model ----
(***************************************************************************)
(* Model of fuzzcheck's code_coverage_sensor C layer:                      *)
(*   instrumentation_pointers_linux.c  (ELF section locator)               *)
(*   instrumentation_pointers_mac.c    (Mach-O section locator)            *)
(*   c_builtins.c                      (return_address)                    *)
(*                                                                         *)
(* The four accessors return the addresses of linker-synthesized boundary  *)
(* symbols; return_address() returns __builtin_return_address(1).  The     *)
(* model follows a build (one variant, one set of input sections), the     *)
(* link step that resolves the boundary symbols, and then the running      *)
(* process: threads that call the accessors, call return_address(), call   *)
(* and return from functions, and instrumented code that bumps counters.   *)
(***************************************************************************)
EXTENDS Integers, Sequences, FiniteSets, TLC

\* ------------------------------------------------------------------ bounds
MaxCounters == 2    \* counters the input objects contribute (0 = no section)
MaxDataBytes == 1   \* bytes of __llvm_prf_data in the inputs (0 = no section)
MaxCount == 1       \* a counter's value is followed up to this bound
MaxDepth == 3       \* frames on a thread's call stack
MaxLevel == 1       \* frame levels a caller may have in mind: 0..MaxLevel

\* --------------------------------------------------------------- constants
\* sizeof(unsigned long int) on the LP64 targets of both variants: the element
\* type the counter region's boundary symbols are declared with.
CounterWidth == 8
\* The level return_address() hands to __builtin_return_address.
Level0 == 0
Level2 == 2
Level == 1
\* extern int __llvm_profile_runtime = 0;
ProfileRuntimeInit == 0

Threads == {"t1", "t2"}
Variants == {"linux", "mac"}
\* An empty result register, an accessor not called yet, no image loaded.
NoResult == [op |-> "none", val |-> 0, lvl |-> 0]
NotCalled == [called |-> FALSE, val |-> 0]
NoImage == [cnts |-> [base |-> 0, size |-> 0], data |-> [base |-> 0, size |-> 0]]

\* The four accessors, by the names both variants export.
Accessors == {"get_start_instrumentation_counters",
              "get_end_instrumentation_counters",
              "get_start_prf_data",
              "get_end_prf_data"}

\* ---------------------------------------------------------------- the image
AlignUp(a, w) == ((a + w - 1) \div w) * w

\* The two sections of the image, [base, size] in bytes.  The counter section
\* is an array of nC elements of the declared element type, the metadata section
\* nD bytes of char; cntsFirst is the order the linker lays them out in.  A
\* section no input contributes has size 0.
Layout(nC, nD, cntsFirst) ==
  LET cs == nC * CounterWidth
      SegmentBase == 4096   \* where the linker places the first of the two
  IN IF cntsFirst
     THEN [cnts |-> [base |-> SegmentBase, size |-> cs],
           data |-> [base |-> SegmentBase + cs, size |-> nD]]
     ELSE [data |-> [base |-> SegmentBase, size |-> nD],
           cnts |-> [base |-> AlignUp(SegmentBase + nD, CounterWidth), size |-> cs]]

\* The symbols each variant's declarations refer to.
ELFSymbols == {"__start___llvm_prf_cnts", "__stop___llvm_prf_cnts",
               "__start___llvm_prf_data", "__stop___llvm_prf_data"}
MachOSymbols == {"section$start$__DATA$__llvm_prf_cnts",
                 "section$end$__DATA$__llvm_prf_cnts",
                 "section$start$__DATA$__llvm_prf_data",
                 "section$end$__DATA$__llvm_prf_data"}

NoSymbols == [n \in {} |-> 0]

\* The declarations of the ELF variant are plain (strong) extern references:
\* an undefined one is a link error.  (A weak reference would resolve to 0.)
linux_references_declared_weak == TRUE
linux_references_weak == FALSE

\* ELF: the linker defines __start_<sec> / __stop_<sec> as the first and the
\* one-past-last address of an output section <sec> that exists; for a section
\* that does not exist the symbols stay undefined.
ELFDefined(img) ==
  {n \in ELFSymbols :
     \/ n \in {"__start___llvm_prf_cnts", "__stop___llvm_prf_cnts"} /\ img.cnts.size > 0
     \/ n \in {"__start___llvm_prf_data", "__stop___llvm_prf_data"} /\ img.data.size > 0}

ELFAddress(img, n) ==
  CASE n = "__start___llvm_prf_cnts" -> img.cnts.base
    [] n = "__stop___llvm_prf_cnts"  -> img.cnts.base + img.cnts.size
    [] n = "__start___llvm_prf_data" -> img.data.base
    [] n = "__stop___llvm_prf_data"  -> img.data.base + img.data.size

\* The result of linking the ELF variant: ok is FALSE on an undefined strong
\* reference.
LinkELF(img) ==
  LET def == ELFDefined(img)
  IN IF def # ELFSymbols /\ ~linux_references_weak
     THEN [ok |-> FALSE, sym |-> NoSymbols]
     ELSE [ok |-> TRUE,
           sym |-> [n \in ELFSymbols |-> IF n \in def THEN ELFAddress(img, n) ELSE 0]]

\* Mach-O: section$start$SEG$sect / section$end$SEG$sect are resolved by the
\* linker itself; for a section no input contributes it creates the section
\* empty, so both symbols are defined and equal.
LinkMachO(img) ==
  [ok |-> TRUE,
   sym |-> [n \in MachOSymbols |->
     CASE n = "section$start$__DATA$__llvm_prf_cnts" -> img.cnts.base
       [] n = "section$end$__DATA$__llvm_prf_cnts"   -> img.cnts.base + img.cnts.size
       [] n = "section$start$__DATA$__llvm_prf_data" -> img.data.base
       [] n = "section$end$__DATA$__llvm_prf_data"   -> img.data.base + img.data.size]]

LinkVariant(v, img) == IF v = "linux" THEN LinkELF(img) ELSE LinkMachO(img)

\* ------------------------------------------------------------------ the code
\* The functions of the target: "start" is a thread's entry (it has no caller
\* frame), f and g are functions of the target.
Funcs == {"f", "g"}
NoFn == "none"
CodeBase == [start |-> 1024, f |-> 1040, g |-> 1056, return_address |-> 1072]
CodeRange(fn) == CodeBase[fn] .. (CodeBase[fn] + 15)
CallOffset == [f |-> 4, g |-> 8, return_address |-> 12]
\* The address execution resumes at in caller once its call of callee returns.
ResumeAddr(caller, callee) == CodeBase[caller] + CallOffset[callee]

\* What a walk past the outermost frame (or without frame pointers) can yield:
\* "0 or a random value", or a crash.
UnspecifiedValues == {0, 7}
UndefinedOutcomes ==
  {[kind |-> "value", val |-> v] : v \in UnspecifiedValues} \cup {[kind |-> "crash", val |-> 0]}

Push(stk, fr) == Append(stk, fr)
Pop(stk) == SubSeq(stk, 1, Len(stk) - 1)
Top(stk) == stk[Len(stk)]

\* Whether the frame `level` frames above the current one (the last of stk) has
\* no return address to read: the walk has left the stack, or has reached the
\* entry frame, which nothing called.
TopOfStackReached(stk, level) == Len(stk) - level < 2

\* __builtin_return_address(level) evaluated in the frame that is last in stk:
\* the set of outcomes the build can produce.  Level 0 reads the current
\* frame's own return address; a higher level follows the saved frame pointers,
\* which is defined only when they are kept (framePointers) and the walk stays
\* inside the stack.
builtin_return_address(stk, level, framePointers) ==
  IF level = 0
  THEN {[kind |-> "value", val |-> Top(stk).ret]}
  ELSE IF framePointers /\ ~TopOfStackReached(stk, level)
       THEN {[kind |-> "value", val |-> stk[Len(stk) - level].ret]}
       ELSE UndefinedOutcomes

\* --------------------------------------------------------------------- state
VARIABLES
  variant,      \* which section locator the build compiles in
  fp,           \* whether the build keeps frame pointers (-Cforce-frame-pointers=yes)
  objCnts,      \* counters in the inputs' __llvm_prf_cnts (0: no such section)
  objData,      \* bytes in the inputs' __llvm_prf_data (0: no such section)
  cntsFirst,    \* the order the linker places the two sections in
  pc,           \* "build", "linkfail", "run" or "crashed"
  image,        \* the loaded image's section layout
  sym,          \* the resolved boundary symbols
  cnts,         \* contents of the counter region
  data,         \* contents of the metadata region
  llvm_profile_runtime,  \* the __llvm_profile_runtime flag
  stack,        \* each thread's call stack, outermost frame first
  inlined,      \* the function inlined into each thread's top frame, or NoFn
  res,          \* each thread's result register: what its last call returned
  first         \* what each accessor returned on its first call

vars == <<variant, fp, objCnts, objData, cntsFirst, pc, image, sym, cnts, data,
          llvm_profile_runtime, stack, inlined, res, first>>

build == <<variant, fp, objCnts, objData, cntsFirst>>

\* ------------------------------------------------------------- the accessors
\* Each accessor returns the address of one symbol; s is the image's resolved
\* symbol table.  (The wired_to / deref definitions are the accessors with a
\* wrong symbol, or with the & dropped.)
get_start_prf_data_linux(s) == s["__start___llvm_prf_data"]
get_end_prf_data_linux(s) == s["__stop___llvm_prf_data"]
get_start_instrumentation_counters_linux_deref(s) == IF Len(cnts) > 0 THEN cnts[1] ELSE 0
get_start_instrumentation_counters_linux(s) == s["__start___llvm_prf_cnts"]
get_end_instrumentation_counters_linux_wired_to_data(s) == s["__start___llvm_prf_data"]
get_end_instrumentation_counters_linux(s) == s["__stop___llvm_prf_cnts"]

get_start_instrumentation_counters_mac_deref(s) == IF Len(cnts) > 0 THEN cnts[1] ELSE 0
get_start_instrumentation_counters_mac(s) == s["section$start$__DATA$__llvm_prf_cnts"]
get_end_instrumentation_counters_mac_wired_to_data(s) == s["section$end$__DATA$__llvm_prf_data"]
get_end_instrumentation_counters_mac(s) == s["section$end$__DATA$__llvm_prf_cnts"]
get_start_prf_data_mac_wired_to_counters(s) == s["section$start$__DATA$__llvm_prf_cnts"]
get_start_prf_data_mac(s) == s["section$start$__DATA$__llvm_prf_data"]
get_end_prf_data_mac(s) == s["section$end$__DATA$__llvm_prf_data"]

\* The accessor named a of variant v.
Accessor(v, a, s) ==
  IF v = "linux"
  THEN CASE a = "get_start_instrumentation_counters" -> get_start_instrumentation_counters_linux(s)
         [] a = "get_end_instrumentation_counters"   -> get_end_instrumentation_counters_linux(s)
         [] a = "get_start_prf_data"                 -> get_start_prf_data_linux(s)
         [] a = "get_end_prf_data"                   -> get_end_prf_data_linux(s)
  ELSE CASE a = "get_start_instrumentation_counters" -> get_start_instrumentation_counters_mac(s)
         [] a = "get_end_instrumentation_counters"   -> get_end_instrumentation_counters_mac(s)
         [] a = "get_start_prf_data"                 -> get_start_prf_data_mac(s)
         [] a = "get_end_prf_data"                   -> get_end_prf_data_mac(s)

EntryFrame == [fn |-> "start", ret |-> 0]

Init ==
  /\ variant \in Variants
  /\ fp \in BOOLEAN
  /\ objCnts \in 0 .. MaxCounters
  /\ objData \in 0 .. MaxDataBytes
  /\ cntsFirst \in BOOLEAN
  /\ pc = "build"
  /\ image = NoImage
  /\ sym = NoSymbols
  /\ cnts = << >>
  /\ data = << >>
  /\ llvm_profile_runtime = ProfileRuntimeInit
  /\ stack = [t \in Threads |-> <<EntryFrame>>]
  /\ inlined = [t \in Threads |-> NoFn]
  /\ res = [t \in Threads |-> NoResult]
  /\ first = [a \in Accessors |-> NotCalled]

\* The link of the chosen variant against the inputs, and the load of the image
\* it produces: the boundary symbols are resolved once, here.
Link ==
  /\ pc = "build"
  /\ LET img == Layout(objCnts, objData, cntsFirst)
         l == LinkVariant(variant, img)
     IN IF l.ok
        THEN /\ pc' = "run"
             /\ image' = img
             /\ sym' = l.sym
             /\ cnts' = [i \in 1 .. objCnts |-> 0]
             /\ data' = [i \in 1 .. objData |-> 255]
        ELSE /\ pc' = "linkfail"
             /\ UNCHANGED <<image, sym, cnts, data>>
  /\ UNCHANGED <<build, llvm_profile_runtime, stack, inlined, res, first>>

\* (CallAccessor built with coverage instrumentation: the call bumps a counter.)
CallAccessor_instrumented(t, a) ==
  /\ pc = "run"
  /\ LET v == Accessor(variant, a, sym)
     IN /\ res' = [res EXCEPT ![t] = [op |-> a, val |-> v, lvl |-> 0]]
        /\ first' = IF first[a].called THEN first ELSE [first EXCEPT ![a] = [called |-> TRUE, val |-> v]]
  /\ cnts' = IF Len(cnts) > 0 /\ cnts[1] < MaxCount THEN [cnts EXCEPT ![1] = @ + 1] ELSE cnts
  /\ UNCHANGED <<build, pc, image, sym, data, llvm_profile_runtime, stack, inlined>>

\* Thread t calls accessor a.
CallAccessor(t, a) ==
  /\ pc = "run"
  /\ LET v == Accessor(variant, a, sym)
     IN /\ res' = [res EXCEPT ![t] = [op |-> a, val |-> v, lvl |-> 0]]
        /\ first' = IF first[a].called THEN first ELSE [first EXCEPT ![a] = [called |-> TRUE, val |-> v]]
  /\ UNCHANGED <<build, pc, image, sym, cnts, data, llvm_profile_runtime, stack, inlined>>

\* Instrumented code run by thread t bumps counter i.
InstrumentedWrite(t, i) ==
  /\ pc = "run"
  /\ i \in 1 .. Len(cnts)
  /\ cnts[i] < MaxCount
  /\ cnts' = [cnts EXCEPT ![i] = @ + 1]
  /\ UNCHANGED <<build, pc, image, sym, data, llvm_profile_runtime, stack, inlined, res, first>>

\* Thread t calls fn with a frame of its own.
Call(t, fn) ==
  /\ pc = "run"
  /\ inlined[t] = NoFn
  /\ Len(stack[t]) < MaxDepth
  /\ stack' = [stack EXCEPT ![t] =
                 Push(@, [fn |-> fn, ret |-> ResumeAddr(Top(@).fn, fn)])]
  /\ res' = [res EXCEPT ![t] = NoResult]
  /\ UNCHANGED <<build, pc, image, sym, cnts, data, llvm_profile_runtime, inlined, first>>

\* Thread t runs fn inlined into its current function: no frame is pushed.
CallInlined(t, fn) ==
  /\ pc = "run"
  /\ inlined[t] = NoFn
  /\ inlined' = [inlined EXCEPT ![t] = fn]
  /\ res' = [res EXCEPT ![t] = NoResult]
  /\ UNCHANGED <<build, pc, image, sym, cnts, data, llvm_profile_runtime, stack, first>>

\* Thread t returns from its current function.
Return(t) ==
  /\ pc = "run"
  /\ IF inlined[t] # NoFn
     THEN inlined' = [inlined EXCEPT ![t] = NoFn] /\ UNCHANGED stack
     ELSE /\ Len(stack[t]) > 1
          /\ stack' = [stack EXCEPT ![t] = Pop(@)]
          /\ UNCHANGED inlined
  /\ res' = [res EXCEPT ![t] = NoResult]
  /\ UNCHANGED <<build, pc, image, sym, cnts, data, llvm_profile_runtime, first>>

\* (return_address taking the level as its argument.)
return_address_with_level(t, lvl) ==
  /\ pc = "run"
  /\ LET own == [fn |-> "return_address",
                 ret |-> ResumeAddr(Top(stack[t]).fn, "return_address")]
         stk == Push(stack[t], own)
     IN \E o \in builtin_return_address(stk, lvl, fp) :
          /\ IF o.kind = "crash"
             THEN pc' = "crashed" /\ UNCHANGED res
             ELSE /\ pc' = pc
                  /\ res' = [res EXCEPT ![t] = [op |-> "return_address", val |-> o.val, lvl |-> lvl]]
          /\ stack' = [stack EXCEPT ![t] = Pop(stk)]
  /\ UNCHANGED <<build, image, sym, cnts, data, llvm_profile_runtime, inlined, first>>

\* Thread t calls return_address() with level lvl in mind.  The function takes
\* no argument: it gets a frame of its own, whose return address lies in the
\* function whose frame is on top (the code of a function inlined there is part
\* of it), evaluates __builtin_return_address(Level) in it and returns.
return_address(t, lvl) ==
  /\ pc = "run"
  /\ LET own == [fn |-> "return_address",
                 ret |-> ResumeAddr(Top(stack[t]).fn, "return_address")]
         stk == Push(stack[t], own)
     IN \E o \in builtin_return_address(stk, Level, fp) :
          /\ IF o.kind = "crash"
             THEN pc' = "crashed" /\ UNCHANGED res
             ELSE /\ pc' = pc
                  /\ res' = [res EXCEPT ![t] = [op |-> "return_address", val |-> o.val, lvl |-> lvl]]
          /\ stack' = [stack EXCEPT ![t] = Pop(stk)]
  /\ UNCHANGED <<build, image, sym, cnts, data, llvm_profile_runtime, inlined, first>>

\* The section locator: the build, and threads that call the accessors while
\* instrumented code writes the counters.
NextSections ==
  \/ Link
  \/ \E t \in Threads, a \in Accessors : CallAccessor(t, a)
  \/ \E t \in Threads, i \in 1 .. MaxCounters : InstrumentedWrite(t, i)

Spec == Init /\ [][NextSections]_vars

\* The frame inspector: threads that call and return from functions and call
\* return_address(), in a build of either variant whose inputs carry both
\* sections.
InitFrames ==
  /\ Init
  /\ objCnts = 1
  /\ objData = 1
  /\ cntsFirst

NextFrames ==
  \/ Link
  \/ \E t \in Threads, fn \in Funcs : Call(t, fn)
  \/ \E t \in Threads, fn \in Funcs : CallInlined(t, fn)
  \/ \E t \in Threads : Return(t)
  \/ \E t \in Threads, lvl \in 0 .. MaxLevel : return_address(t, lvl)

SpecFrames == InitFrames /\ [][NextFrames]_vars

\* The running process as a whole, in a build that keeps frame pointers: the
\* thread that runs the target calls and returns from its functions; every
\* thread calls the accessors and return_address() and runs instrumented code
\* that writes the counters.
TargetThreads == {"t1"}

InitProcess ==
  /\ InitFrames
  /\ fp

NextProcess ==
  \/ Link
  \/ \E t \in Threads, a \in Accessors : CallAccessor(t, a)
  \/ \E t \in Threads, i \in 1 .. MaxCounters : InstrumentedWrite(t, i)
  \/ \E t \in TargetThreads, fn \in Funcs : Call(t, fn)
  \/ \E t \in TargetThreads : Return(t)
  \/ \E t \in Threads, lvl \in 0 .. MaxLevel : return_address(t, lvl)

SpecProcess == InitProcess /\ [][NextProcess]_vars

\* ------------------------------------------------------------------- claims
\* The boundary of the image that accessor a names.
Boundary(img, a) ==
  CASE a = "get_start_instrumentation_counters" -> img.cnts.base
    [] a = "get_end_instrumentation_counters"   -> img.cnts.base + img.cnts.size
    [] a = "get_start_prf_data"                 -> img.data.base
    [] a = "get_end_prf_data"                   -> img.data.base + img.data.size

\* The inputs carry both profile sections (a properly instrumented binary).
Instrumented == objCnts > 0 /\ objData > 0

Holds(t, a) == res[t].op = a
ContentsWritten == \E i \in 1 .. Len(cnts) : cnts[i] > 0

\* Thread t has just got return_address()'s result in a function with a frame
\* of its own, which has a caller frame, in a build that keeps frame pointers.
WalkDefined(t) ==
  /\ Holds(t, "return_address")
  /\ fp
  /\ inlined[t] = NoFn
  /\ Len(stack[t]) >= 2
\* The function that called return_address(), and the one that invoked it.
FnF(t) == Top(stack[t]).fn
FnG(t) == stack[t][Len(stack[t]) - 1].fn
\* Thread t has just called return_address() from its entry function, whose
\* frame has no caller frame above it.
WalkTooDeep(t) == Holds(t, "return_address") /\ Len(stack[t]) = 1

\* C1: every value an accessor returns equals the value it returned on its
\* first call, whichever thread calls it and however often.
C1_Idempotent ==
  \A t \in Threads :
    res[t].op \in Accessors =>
      /\ first[res[t].op].called
      /\ res[t].val = first[res[t].op].val

\* C1 witness: both threads hold a result of the same accessor (so it was called
\* at least twice) after the counters were written in between.
C1_Witness ==
  /\ ContentsWritten
  /\ Holds("t1", "get_start_instrumentation_counters")
  /\ Holds("t2", "get_start_instrumentation_counters")
  /\ res["t1"].val = res["t2"].val

\* C2: in a properly instrumented binary the start accessor of a region never
\* returns an address above its end accessor, for both regions.
C2_StartNotAboveEnd ==
  (pc = "run" /\ Instrumented) =>
    /\ Accessor(variant, "get_start_instrumentation_counters", sym)
         <= Accessor(variant, "get_end_instrumentation_counters", sym)
    /\ Accessor(variant, "get_start_prf_data", sym)
         <= Accessor(variant, "get_end_prf_data", sym)
    /\ \A t, u \in Threads :
         ((Holds(t, "get_start_instrumentation_counters")
             /\ Holds(u, "get_end_instrumentation_counters"))
          \/ (Holds(t, "get_start_prf_data") /\ Holds(u, "get_end_prf_data")))
         => res[t].val <= res[u].val

\* C2 witness: the metadata section lies below the counters, and the two
\* threads hold the start and the end of a non-empty counter region.
C2_Witness ==
  /\ pc = "run" /\ Instrumented /\ ~cntsFirst
  /\ Holds("t1", "get_start_instrumentation_counters")
  /\ Holds("t2", "get_end_instrumentation_counters")
  /\ res["t1"].val < res["t2"].val

\* C6: the extent of the counter region, in bytes, is a multiple of the counter
\* element width in every instrumented binary.
C6_WholeCounters ==
  (pc = "run" /\ Instrumented) =>
    /\ (Accessor(variant, "get_end_instrumentation_counters", sym)
          - Accessor(variant, "get_start_instrumentation_counters", sym)) % CounterWidth = 0
    /\ \A t, u \in Threads :
         (Holds(t, "get_start_instrumentation_counters")
            /\ Holds(u, "get_end_instrumentation_counters"))
         => (res[u].val - res[t].val) % CounterWidth = 0

\* C6 witness: the region of a binary with the most counters, measured between
\* the two addresses the threads got.
C6_Witness ==
  /\ pc = "run" /\ Instrumented /\ objCnts = MaxCounters
  /\ Holds("t1", "get_start_instrumentation_counters")
  /\ Holds("t2", "get_end_instrumentation_counters")
  /\ res["t2"].val - res["t1"].val = MaxCounters * CounterWidth

\* C7: in the running process no step, of any thread, moves a region's
\* boundaries, and every accessor call returns the load-time boundary of its
\* region, while the counters are being written.
C7_ExtentsFixed ==
  [][pc = "run" =>
       /\ image' = image
       /\ sym' = sym
       /\ \A t \in Threads :
            res'[t].op \in Accessors => res'[t].val = Boundary(image, res'[t].op)]_vars

\* C7 witness: the counters were written, and both threads hold boundaries of
\* the loaded image.
C7_Witness ==
  /\ ContentsWritten
  /\ Holds("t1", "get_end_instrumentation_counters")
  /\ Holds("t2", "get_start_prf_data")
  /\ res["t1"].val = Boundary(image, "get_end_instrumentation_counters")
  /\ res["t2"].val = Boundary(image, "get_start_prf_data")

\* The accessors of region r, and whether the inputs lack the region.
Absent(r) == IF r = "cnts" THEN objCnts = 0 ELSE objData = 0
StartOf(r) == IF r = "cnts" THEN "get_start_instrumentation_counters" ELSE "get_start_prf_data"
EndOf(r) == IF r = "cnts" THEN "get_end_instrumentation_counters" ELSE "get_end_prf_data"

C9_VariantsAgree ==
  Instrumented =>
    LET img == Layout(objCnts, objData, cntsFirst)
        e == LinkELF(img)
        m == LinkMachO(img)
    IN /\ e.ok /\ m.ok
       /\ \A a \in Accessors :
            /\ Accessor("linux", a, e.sym) = Boundary(img, a)
            /\ Accessor("mac", a, m.sym) = Boundary(img, a)
       /\ \A t \in Threads :
            res[t].op \in Accessors =>
              /\ res[t].val = Accessor("linux", res[t].op, e.sym)
              /\ res[t].val = Accessor("mac", res[t].op, m.sym)

\* C9 witness: a Mach-O process got the start of a non-empty metadata region
\* that lies above the counters, and a thread of it the end of the counters.
C9_Witness ==
  /\ pc = "run" /\ Instrumented /\ variant = "mac" /\ cntsFirst
  /\ Holds("t1", "get_start_prf_data")
  /\ Holds("t2", "get_end_instrumentation_counters")
  /\ res["t1"].val = get_start_prf_data_linux(LinkELF(image).sym)
  /\ res["t1"].val >= res["t2"].val

\* C3: called from a function f that has a frame of its own and was invoked by
\* g, in a build that keeps frame pointers, return_address() returns the address
\* in g at which execution resumes once f returns.
C3_ReturnsIntoCaller ==
  \A t \in Threads :
    WalkDefined(t) =>
      /\ res[t].val \in CodeRange(FnG(t))
      /\ res[t].val = ResumeAddr(FnG(t), FnF(t))

\* C3 witness: f, invoked by g, got an address in g and not in f.
C3_Witness ==
  \E t \in Threads :
    /\ WalkDefined(t)
    /\ FnF(t) = "f" /\ FnG(t) = "g"
    /\ res[t].val \in CodeRange("g")
    /\ res[t].val \notin CodeRange("f")

\* The function `n` frames above the one that called return_address().
Ancestor(t, n) == stack[t][Len(stack[t]) - n].fn

\* C4 as stated: the call honours the level the caller chose; level 0 yields an
\* address in the calling function f, level n > 0 one in its n-th ancestor.
C4_LevelChosenByCaller ==
  \A t \in Threads :
    (WalkDefined(t) /\ Len(stack[t]) - res[t].lvl >= 1) =>
      res[t].val \in CodeRange(Ancestor(t, res[t].lvl))

\* C4 amended: return_address() takes no level.  Whatever level the caller has
\* in mind, it returns the return address of the calling function f (the walk of
\* one frame above its own), never its own return address in f.
C4_LevelFixedAtOne ==
  \A t \in Threads :
    WalkDefined(t) =>
      /\ res[t].val = Top(stack[t]).ret
      /\ res[t].val # ResumeAddr(FnF(t), "return_address")

\* C4 witness: a caller that had level 0 in mind, in f invoked by g, got f's
\* return address, which lies outside f.
C4_Witness ==
  \E t \in Threads :
    /\ WalkDefined(t)
    /\ res[t].lvl = 0
    /\ FnF(t) = "f" /\ FnG(t) = "g"
    /\ res[t].val = Top(stack[t]).ret
    /\ res[t].val \notin CodeRange("f")

\* C5 as stated: a walk deeper than the call stack returns the sentinel 0, and
\* the process never crashes.
C5_SentinelNeverCrash ==
  fp =>
    /\ pc # "crashed"
    /\ \A t \in Threads : WalkTooDeep(t) => res[t].val = 0

\* C5 amended: a walk deeper than the call stack returns 0 or an unspecified
\* value, or crashes the process; with frame pointers kept, only such a walk
\* crashes it.
C5_SentinelOrUnspecifiedOrCrash ==
  /\ \A t \in Threads : WalkTooDeep(t) => res[t].val \in UnspecifiedValues
  /\ (fp /\ pc = "crashed") => \E t \in Threads : Len(stack[t]) = 1

\* C5 witness: return_address() called from a thread's entry function returned
\* a value that is not the sentinel.
C5_Witness ==
  \E t \in Threads :
    /\ fp
    /\ WalkTooDeep(t)
    /\ res[t].val # 0

\* C10: a call of an accessor or of return_address() leaves the contents of
\* both regions, their boundaries, the __llvm_profile_runtime flag and every
\* call stack as they were.
C10_PureReads ==
  [][(\/ \E t \in Threads, a \in Accessors : CallAccessor(t, a)
      \/ \E t \in Threads, lvl \in 0 .. MaxLevel : return_address(t, lvl))
     => UNCHANGED <<cnts, data, image, sym, llvm_profile_runtime, stack>>]_vars

\* C10 witness: with counters written and a thread two calls deep, that thread
\* holds return_address()'s result and the other an accessor's, and the counters
\* are still written and the stack as deep as before.
C10_Witness ==
  /\ pc = "run"
  /\ cnts[1] = MaxCount
  /\ llvm_profile_runtime = ProfileRuntimeInit
  /\ Holds("t1", "return_address") /\ Len(stack["t1"]) = MaxDepth
  /\ Holds("t2", "get_end_prf_data")
  /\ res["t2"].val = Boundary(image, "get_end_prf_data")

====
